---- MODULE Spec2Model ----
(***************************************************************************)
(* Model of src/index.js (homebridge-bravia-favourites): one               *)
(* BraviaTvController, its power poll loop, its channel-map refresh with   *)
(* the 60 s throttle, the user operations setPower / selectIdentifier and  *)
(* the shutdown handler; and the BraviaFavouritesPlatform that loads the   *)
(* favourites file and reconciles the accessories at didFinishLaunching.   *)
(*                                                                         *)
(* JavaScript strings are sequences of one-character strings, so that the  *)
(* regular expressions and String(Number(x)) of the source are computed,   *)
(* not assumed.  An absent or empty (falsy) field is the empty sequence.   *)
(***************************************************************************)
EXTENDS Integers, Sequences, FiniteSets, TLC

VARIABLES
  now,                 \* Date.now(), in ms
  steps,               \* model clock: steps taken in the observed span of time
  power,               \* this.power
  activeIdentifier,    \* this.activeIdentifier
  identifierToChannel, \* this.identifierToChannel (identifier -> fav.number)
  channelUriByNumber,  \* this.channelUriByNumber (number string -> uri)
  lastChannelMapMs,    \* this.lastChannelMapMs
  pollTimers,          \* pending setTimeout(poll, pollIntervalMs) timers
  pollInFlight,        \* getPowerStatus RPCs awaited by poll()
  timeoutPending,      \* the 2 s channelMapTimeout has not fired / been cleared
  intervalPending,     \* the 6 h channelMapInterval is not cleared
  intervalDueMs,       \* next firing time of channelMapInterval
  setPowerCalls,       \* setPower() calls awaiting their setPowerStatus RPC
  listCalls,           \* refreshChannelMap() calls awaiting getContentList
  playCalls,           \* tuneChannel() calls awaiting setPlayContent
  shutdown,            \* the 'shutdown' event has been emitted
  out,                 \* what the last handler did: RPCs issued, updateValue calls
  hist,                \* observations used to state the properties
  config,              \* the platform's config: psk, maxFavourites, tvs
  file,                \* the favourites file
  accessoriesByUUID,   \* this.accessoriesByUUID: the UUIDs configureAccessory got
  directory,           \* the host's accessories: UUID -> services, context
  launch               \* what the didFinishLaunching handler did

vars == <<now, steps, power, activeIdentifier, identifierToChannel,
          channelUriByNumber, lastChannelMapMs, pollTimers, pollInFlight,
          timeoutPending, intervalPending, intervalDueMs, setPowerCalls,
          listCalls, playCalls, shutdown, out, hist,
          config, file, accessoriesByUUID, directory, launch>>

(***************************************************************************)
(* Bounds of the model                                                     *)
(***************************************************************************)
StartMs == 100000          \* Date.now() when the controller is constructed
MaxSteps == 1              \* clock steps in an observed span of time
MaxSetPowerCalls == 2      \* concurrent setPower() calls
MaxSelectCalls == 1        \* concurrent selectIdentifier() calls
MaxLines == 2              \* lines of a favourites file
MaxTvs == 2                \* entries of config.tvs
MaxItems == 1              \* entries of a getContentList response, for the derivation

(***************************************************************************)
(* Program constants                                                       *)
(***************************************************************************)
ThrottleMs == 60 * 1000
InitialDelayMs == 2000
IntervalMs == 6 * 60 * 60 * 1000
MaxIdentifier == 999
DefaultMaxFavourites == 30

\* no value: no time yet, an absent field
None == -1

\* a step of the clock: with the 2 s of the initial timer, the throttle window
StepMs == ThrottleMs - InitialDelayMs

(***************************************************************************)
(* Strings                                                                 *)
(***************************************************************************)
Digits == <<"0", "1", "2", "3", "4", "5", "6", "7", "8", "9">>
UpperCase == <<"A", "B", "C", "D", "E", "F", "G", "H", "I", "J", "K", "L", "M",
               "N", "O", "P", "Q", "R", "S", "T", "U", "V", "W", "X", "Y", "Z">>
LowerCase == <<"a", "b", "c", "d", "e", "f", "g", "h", "i", "j", "k", "l", "m",
               "n", "o", "p", "q", "r", "s", "t", "u", "v", "w", "x", "y", "z">>

Range(s) == {s[i] : i \in DOMAIN s}

IsDigit(c) == c \in Range(Digits)

DigitVal(c) == (CHOOSE i \in DOMAIN Digits : Digits[i] = c) - 1

\* the regular expression class \w
IsWordChar(c) == IsDigit(c) \/ c \in Range(UpperCase) \/ c \in Range(LowerCase) \/ c = "_"

\* the regular expression class \s, as far as String.prototype.trim needs it
IsSpace(c) == c \in {" ", "\t", "\r", "\n"}

ToLower(c) ==
  IF c \in Range(UpperCase)
    THEN LowerCase[CHOOSE i \in DOMAIN UpperCase : UpperCase[i] = c]
    ELSE c

\* /^\d+$/.test(s)
AllDigits(s) == Len(s) >= 1 /\ \A i \in DOMAIN s : IsDigit(s[i])

\* Number(s) for an all-digit string s
RECURSIVE NumVal(_)
NumVal(s) ==
  IF Len(s) = 0 THEN 0
  ELSE 10 * NumVal(SubSeq(s, 1, Len(s) - 1)) + DigitVal(s[Len(s)])

\* String(n) for a natural number n
RECURSIVE DecStr(_)
DecStr(n) ==
  IF n < 10 THEN <<Digits[n + 1]>>
  ELSE Append(DecStr(n \div 10), Digits[(n % 10) + 1])

\* String(Number(s)): the canonical decimal string, leading zeros stripped
Normalize(s) == DecStr(NumVal(s))

\* String.prototype.trim
RECURSIVE Trim(_)
Trim(s) ==
  IF Len(s) = 0 THEN s
  ELSE IF IsSpace(s[1]) THEN Trim(Tail(s))
  ELSE IF IsSpace(s[Len(s)]) THEN Trim(SubSeq(s, 1, Len(s) - 1))
  ELSE s

\* length of the run of digits of s that starts at position i
RECURSIVE DigitRun(_, _)
DigitRun(s, i) ==
  IF i > Len(s) \/ ~IsDigit(s[i]) THEN 0 ELSE 1 + DigitRun(s, i + 1)

\* s has the text kw (lower case) at position i, ignoring case
HasAt(s, i, kw) ==
  /\ i + Len(kw) - 1 <= Len(s)
  /\ \A k \in DOMAIN kw : ToLower(s[i + k - 1]) = kw[k]

(***************************************************************************)
(* refreshChannelMap: the channel number of one content entry              *)
(***************************************************************************)
\* String(title).trim().match(/^(\d{1,4})\b/): the group, or <<>> for no match.
\* \d{1,4} backtracks, but a shorter run of digits is followed by a digit, which
\* is no word boundary: the match is the whole leading run, of 1 to 4 digits,
\* followed by the end of the string or by a character that is not \w.
TitleMatch(title) ==
  LET t == Trim(title)
      k == DigitRun(t, 1)
  IN IF k >= 1 /\ k <= 4 /\ (k = Len(t) \/ ~IsWordChar(t[k + 1]))
       THEN SubSeq(t, 1, k)
       ELSE <<>>

UriKeywords == << <<"d", "i", "s", "p", "n", "u", "m", "=">>,
                  <<"c", "h", "a", "n", "n", "e", "l", "=">>,
                  <<"c", "h", "=">> >>

\* kw followed by at least one digit starts at position i of uri
UriMatchAt(uri, i) ==
  \E j \in DOMAIN UriKeywords :
     HasAt(uri, i, UriKeywords[j]) /\ DigitRun(uri, i + Len(UriKeywords[j])) >= 1

\* String(uri).match(/(?:dispNum|channel|ch)=(\d+)/i): the group of the leftmost
\* match, or <<>> for no match
UriMatch(uri) ==
  IF \E i \in DOMAIN uri : UriMatchAt(uri, i)
    THEN LET i == CHOOSE p \in DOMAIN uri :
                    UriMatchAt(uri, p) /\ \A q \in 1..(p - 1) : ~UriMatchAt(uri, q)
             j == CHOOSE q \in DOMAIN UriKeywords :
                    /\ HasAt(uri, i, UriKeywords[q])
                    /\ DigitRun(uri, i + Len(UriKeywords[q])) >= 1
                    /\ \A r \in 1..(q - 1) :
                         ~(HasAt(uri, i, UriKeywords[r])
                           /\ DigitRun(uri, i + Len(UriKeywords[r])) >= 1)
             from == i + Len(UriKeywords[j])
         IN SubSeq(uri, from, from + DigitRun(uri, from) - 1)
    ELSE <<>>

\* a derivation that tries the title before the display number
ItemNumberTitleFirst(item) ==
  IF item.title # <<>> /\ TitleMatch(item.title) # <<>>
    THEN Normalize(TitleMatch(item.title))
  ELSE IF item.dispNum # <<>> /\ AllDigits(item.dispNum) THEN Normalize(item.dispNum)
  ELSE IF UriMatch(item.uri) # <<>> THEN Normalize(UriMatch(item.uri))
  ELSE <<>>

\* the three tiers; <<>> when the entry yields no number
ItemNumber(item) ==
  LET tier1 == IF item.dispNum # <<>> /\ AllDigits(item.dispNum)
                 THEN Normalize(item.dispNum) ELSE <<>>
      tm == IF tier1 = <<>> /\ item.title # <<>> THEN TitleMatch(item.title) ELSE <<>>
      tier2 == IF tier1 # <<>> THEN tier1
               ELSE IF tm # <<>> THEN Normalize(tm) ELSE <<>>
      um == IF tier2 = <<>> THEN UriMatch(item.uri) ELSE <<>>
  IN IF tier2 # <<>> THEN tier2
     ELSE IF um # <<>> THEN Normalize(um) ELSE <<>>

\* Map.set(k, v)
MapSet(m, k, v) == [x \in (DOMAIN m) \cup {k} |-> IF x = k THEN v ELSE m[x]]

EmptyMap == [x \in {} |-> <<>>]

\* the loop over the list: newMap after its first n entries
RECURSIVE BuildMapUpTo(_, _)
BuildMapUpTo(list, n) ==
  IF n = 0 THEN EmptyMap
  ELSE LET m == BuildMapUpTo(list, n - 1)
           item == list[n]
       IN IF item.uri = <<>> THEN m
          ELSE IF ItemNumber(item) # <<>> THEN MapSet(m, ItemNumber(item), item.uri)
          ELSE m

BuildMap(list) == BuildMapUpTo(list, Len(list))

(***************************************************************************)
(* The RPC client: rpc() resolves with the parsed JSON body, or rejects    *)
(***************************************************************************)
\* httpPost rejects on a request error and on statusCode >= 400; JSON.parse throws
RpcFailures == {"transportError", "httpError", "badJson"}

Reject(e) == [ok |-> FALSE, error |-> e, isNull |-> FALSE, result |-> <<>>]

\* a JSON object; result = <<>> stands for a body without a (non-empty) result
Resolve(result) == [ok |-> TRUE, error |-> "", isNull |-> FALSE, result |-> result]

\* the JSON text null
ResolveNull == [ok |-> TRUE, error |-> "", isNull |-> TRUE, result |-> <<>>]

Rejections == {Reject(e) : e \in RpcFailures}

\* getPowerStatus: resp.result[0].status, or 'unknown'; a TypeError on a null
\* body is caught and gives 'unknown' too
GetPowerStatus(resp) ==
  IF resp.isNull THEN "unknown"
  ELSE IF resp.result # <<>> /\ resp.result[1].status # "" THEN resp.result[1].status
  ELSE "unknown"

\* (resp && resp.result && resp.result[0]) ? resp.result[0] : []
ContentListOf(resp) ==
  IF resp.isNull \/ resp.result = <<>> THEN <<>> ELSE resp.result[1]

(***************************************************************************)
(* Inputs: favourites, identifiers, responses of the television            *)
(***************************************************************************)
Str7 == <<"7">>

\* numbers as loadFavourites delivers them: String(Number(number))
FavouriteNumbers == {<<"0">>, Str7, <<"1", "0", "0", "0">>}

MaxFavourites == 2

FavouriteLists ==
  UNION {[1..n -> [name : {"fav"}, number : FavouriteNumbers]] : n \in 0..MaxFavourites}

\* identifiers the host may select: 7 is a favourite or not, 1000 is out of range
SelectIdentifiers == {0, 7, 1000}

UriA == <<"t", "v", ":", "a">>
UriB == <<"t", "v", ":", "b">>
UriC == <<"t", "v", ":", "c">>
UriCh34 == <<"t", "v", "?", "C", "h", "=", "0", "3", "4">>

Item(dispNum, title, uri) == [dispNum |-> dispNum, title |-> title, uri |-> uri]

\* 7 by its display number
ListA == << Item(<<"0", "0", "7">>, <<"B", "B", "C">>, UriA) >>
\* 12 by its title, 34 by its uri
ListB == << Item(<<>>, <<"1", "2", " ", "I", "T", "V">>, UriB), Item(<<>>, <<>>, UriCh34) >>
\* entries, none of which yields a number or has a uri
ListC == << Item(<<>>, <<"N", "e", "w", "s">>, UriC), Item(Str7, <<>>, <<>>) >>

ContentLists == {<<>>, ListA, ListB, ListC}

PowerResponses ==
  Rejections \cup {Resolve(<< [status |-> s] >>) : s \in {"active", "standby"}}
             \cup {Resolve(<<>>), ResolveNull}

SetResponses == Rejections \cup {Resolve(<<>>), ResolveNull}

ListResponses ==
  Rejections \cup {Resolve(<< l >>) : l \in ContentLists} \cup {Resolve(<<>>), ResolveNull}

\* content entries for the derivation of the channel number: the display
\* number absent, all digits, or not; the title absent, with a leading number,
\* with leading digits that run into a word, with five leading digits; the uri
\* absent, without a number, with one
DispNums == {<<>>, << "1", "2" >>, << "0", "0", "7" >>, << "1", "a" >>}

Titles == {<<>>, << "9", "9", " ", "O", "t", "h", "e", "r", " ", "C", "h", "a", "n", "n", "e", "l" >>,
           << "5", "U", "S", "A" >>, << "1", "2", "3", "4", "5", " ", "X" >>,
           << " ", "0", "3", "4", " ", "N", "e", "w", "s" >>}

Uris == {<<>>, UriA, UriCh34, << "t", "v", "?", "s", "e", "a", "r", "c", "h", "=", "5", "&", "x" >>}

ContentEntries == {Item(d, t, u) : d \in DispNums, t \in Titles, u \in Uris}

DerivationResponses ==
  {Reject("httpError"), Resolve(<<>>)}
    \cup {Resolve(<< l >>) : l \in UNION {[1..n -> ContentEntries] : n \in 1..MaxItems}}

(***************************************************************************)
(* buildServices: the identifier table                                     *)
(***************************************************************************)
\* the loop over this.favourites: the table after the first n favourites
RECURSIVE BuildTableUpTo(_, _)
BuildTableUpTo(favs, n) ==
  IF n = 0 THEN [x \in {} |-> <<>>]
  ELSE LET t == BuildTableUpTo(favs, n - 1)
           identifier == NumVal(favs[n].number)
       IN IF identifier <= 0 \/ identifier > MaxIdentifier THEN t
          ELSE MapSet(t, identifier, favs[n].number)

BuildTable(favs) == BuildTableUpTo(favs, Len(favs))

(***************************************************************************)
(* buildServices: the services of the accessory                            *)
(***************************************************************************)
\* a service of an accessory: its type, subtype, name and Identifier
ServiceOf(type, subtype, name, identifier) ==
  [type |-> type, subtype |-> subtype, name |-> name, identifier |-> identifier]

\* the service every PlatformAccessory is created with
InfoService == ServiceOf("AccessoryInformation", <<>>, <<>>, 0)

\* how HomeKit tells the services of an accessory apart
ServiceKey(s) == <<s.type, s.subtype>>

\* a subtype made of the display name
InputSubtypeOfName(fav) == <<"f", "a", "v", ":">> \o fav.name

\* const subtype = `fav:${fav.number}`
InputSubtype(fav) == <<"f", "a", "v", ":">> \o fav.number

\* for (const s of [...this.accessory.services]) { if (s.UUID === infoUUID)
\* continue; this.accessory.removeService(s) }: the services removed
RemovedServices(services) == {s \in services : s.type # "AccessoryInformation"}

\* accessory.getService(type) / getServiceById(type, subtype): the set is empty
\* for undefined
GetServiceById(services, type, subtype) ==
  {s \in services : s.type = type /\ s.subtype = subtype}

\* the loop over this.favourites: the services, the keys of the services added
\* and this.inputServices after the first n favourites
RECURSIVE BuildInputsUpTo(_, _, _)
BuildInputsUpTo(start, favs, n) ==
  IF n = 0 THEN start
  ELSE LET a == BuildInputsUpTo(start, favs, n - 1)
           fav == favs[n]
           identifier == NumVal(fav.number)
           subtype == InputSubtype(fav)
           found == GetServiceById(a.services, "InputSource", subtype)
           input == ServiceOf("InputSource", subtype, fav.name, identifier)
       IN IF identifier <= 0 \/ identifier > MaxIdentifier THEN a
          ELSE [services |-> (a.services \ found) \cup {input},
                added |-> IF found = {} THEN a.added \cup {ServiceKey(input)}
                          ELSE a.added,
                inputServices |-> Append(a.inputServices, subtype)]

\* buildServices on an accessory with the given services, for the television
\* of that name: the services after it, those it removed, the keys of those it
\* added, this.inputServices and this.identifierToChannel
BuildServices(services, name, favs) ==
  LET removed == RemovedServices(services)
      kept == services \ removed
      tvFound == GetServiceById(kept, "Television", <<>>)
      tv == ServiceOf("Television", <<>>, name, 0)
      start == [services |-> (kept \ tvFound) \cup {tv},
                added |-> IF tvFound = {} THEN {ServiceKey(tv)} ELSE {},
                inputServices |-> <<>>]
      built == BuildInputsUpTo(start, favs, Len(favs))
  IN [services |-> built.services,
      removed |-> removed,
      added |-> built.added,
      inputServices |-> built.inputServices,
      table |-> BuildTable(favs)]

(***************************************************************************)
(* loadFavourites                                                          *)
(***************************************************************************)
\* the favourites file: present with its text, unreadable (readFileSync
\* throws), missing, or missing where it cannot be written
FileOf(state, raw) == [state |-> state, raw |-> raw]

\* the starter file of ensureFavouritesFile
StarterFile ==
  << "#", " ", "F", "o", "r", "m", "a", "t", ":", " ", "N", "a", "m", "e",
     "=", "N", "u", "m", "b", "e", "r", "\n", "B", "B", "C", " ", "O", "n",
     "e", "=", "1", "\n", "B", "B", "C", " ", "T", "w", "o", "=", "2",
     "\n", "I", "T", "V", "1", "=", "3", "\n", "C", "h", "a", "n", "n",
     "e", "l", " ", "4", "=", "4", "\n", "C", "h", "a", "n", "n", "e", "l",
     " ", "5", "=", "5", "\n", "B", "B", "C", " ", "N", "e", "w", "s", "=",
     "2", "3", "1", "\n", "I", "T", "V", "2", "=", "6", "\n", "I", "T",
     "V", "3", "=", "1", "0", "\n", "F", "i", "l", "m", "4", "=", "1", "4",
     "\n", "D", "a", "v", "e", "=", "1", "9", "\n", "5", "U", "S", "A",
     "-", "2", "1", "\n" >>

\* ensureFavouritesFile: a missing file is written with the starter text; a
\* failure is caught and leaves the file missing
EnsureFavouritesFile(f) ==
  IF f.state = "missing" THEN FileOf("present", StarterFile) ELSE f

\* Number.isFinite(config.maxFavourites) ? config.maxFavourites : 30
MaxOf(cfg) ==
  IF cfg.maxFavourites = None THEN DefaultMaxFavourites ELSE cfg.maxFavourites

\* s.indexOf(c) + 1: the first position of c in s, or 0
IndexOf(s, c) ==
  IF \E i \in DOMAIN s : s[i] = c
    THEN CHOOSE i \in DOMAIN s : s[i] = c /\ \A j \in 1..(i - 1) : s[j] # c
    ELSE 0

\* raw.split(/\r?\n/)
RECURSIVE SplitLines(_)
SplitLines(raw) ==
  LET i == IndexOf(raw, "\n")
      line == SubSeq(raw, 1, i - 1)
      cut == IF Len(line) > 0 /\ line[Len(line)] = "\r"
               THEN SubSeq(line, 1, Len(line) - 1) ELSE line
  IN IF i = 0 THEN << raw >>
     ELSE << cut >> \o SplitLines(SubSeq(raw, i + 1, Len(raw)))

\* a line that gives no favourite
NoEntry == [name |-> <<>>, number |-> <<>>]

\* the body of the loop for one line: the entry pushed, or NoEntry for continue
ParseLine(lineRaw) ==
  LET line == Trim(lineRaw)
      eq == IndexOf(line, "=") - 1
      name == Trim(SubSeq(line, 1, eq))
      number == Trim(SubSeq(line, eq + 2, Len(line)))
  IN IF line = <<>> \/ line[1] = "#" THEN NoEntry
     ELSE IF eq < 1 THEN NoEntry
     ELSE IF name = <<>> THEN NoEntry
     ELSE IF ~AllDigits(number) THEN NoEntry
     ELSE [name |-> name, number |-> Normalize(number)]

\* the loop from line i on: out.push(...); if (out.length >= max) break
RECURSIVE LoadFrom(_, _, _, _)
LoadFrom(lines, i, list, max) ==
  IF i > Len(lines) THEN list
  ELSE IF ParseLine(lines[i]) = NoEntry THEN LoadFrom(lines, i + 1, list, max)
  ELSE LET pushed == Append(list, ParseLine(lines[i]))
       IN IF Len(pushed) >= max THEN pushed
          ELSE LoadFrom(lines, i + 1, pushed, max)

\* loadFavourites: a failure to read is caught and gives the empty list
LoadFavourites(f, cfg) ==
  IF f.state # "present" THEN <<>>
  ELSE LoadFrom(SplitLines(f.raw), 1, <<>>, MaxOf(cfg))

(***************************************************************************)
(* Inputs of the platform: config.tvs, the favourites file, the accessories *)
(* the host has cached                                                     *)
(***************************************************************************)
TvCfg(name, ip) == [name |-> name, ip |-> ip]

TvA == TvCfg(<<"A">>, <<"1">>)
TvB == TvCfg(<<"B">>, <<"2">>)
\* a television of an earlier configuration
TvOld == TvCfg(<<"C">>, <<"3">>)
\* entries without a name, without an ip
TvNoName == TvCfg(<<>>, <<"3">>)
TvNoIp == TvCfg(<<"C">>, <<>>)

TvLists == UNION {[1..n -> {TvA, TvB, TvNoName, TvNoIp}] : n \in 0..MaxTvs}

\* UUIDGen.generate(`${tvCfg.name}-BraviaFavourites-${tvCfg.ip}`): the UUID is
\* a hash of the text, taken to be free of collisions, so the text stands for it
Identity(tvCfg) ==
  tvCfg.name \o << "-", "B", "r", "a", "v", "i", "a", "F", "a", "v", "o", "u", "r", "i",
                   "t", "e", "s", "-" >> \o tvCfg.ip

LineBBC7 == << "B", "B", "C", "=", "7" >>
LineITV007 == << " ", "I", "T", "V", " ", "=", " ", "0", "0", "7", " " >>
LineITV12 == << "I", "T", "V", "=", "1", "2", "\r" >>
LineHD1000 == << "H", "D", "=", "1", "0", "0", "0" >>
LineComment == << "#", "x", "=", "1" >>
LineNoEquals == << "5", "U", "S", "A", "-", "2", "1" >>
LineNotANumber == << "X", "=", "1", "a" >>
LineNoName == << "=", "5" >>

FileLines == {LineBBC7, LineITV007, LineITV12, LineHD1000, LineComment,
              LineNoEquals, LineNotANumber, LineNoName}

\* the text of a file with these lines, each ended by a newline
RECURSIVE JoinLines(_)
JoinLines(lines) ==
  IF Len(lines) = 0 THEN <<>>
  ELSE lines[1] \o << "\n" >> \o JoinLines(Tail(lines))

Files ==
  {FileOf("present", JoinLines(ls)) : ls \in UNION {[1..n -> FileLines] : n \in 0..MaxLines}}
    \cup {FileOf("unreadable", <<>>), FileOf("missing", <<>>),
          FileOf("missingUnwritable", <<>>)}

\* config.maxFavourites: absent, or a number
MaxFavouritesValues == {None} \cup 0..MaxLines

Config(psk, max, tvs) == [psk |-> psk, maxFavourites |-> max, tvs |-> tvs]

\* an accessory of the host's cache: its services and context.favourites, as
\* the controller of an earlier run built it from the favourites of that run
Accessory(services, favs) == [services |-> services, favourites |-> favs]

CachedAccessory(tvCfg, lines) ==
  LET favs == LoadFavourites(FileOf("present", JoinLines(lines)),
                             Config(TRUE, None, << tvCfg >>))
  IN Accessory(BuildServices({InfoService}, tvCfg.name, favs).services, favs)

\* the favourites files of the earlier run
EarlierLines == {<<>>, << LineBBC7 >>, << LineBBC7, LineITV12 >>}

\* the caches of the host: some of the televisions, built from the same file
Directories ==
  {[u \in {Identity(tv) : tv \in tvSet} |->
      CachedAccessory(CHOOSE tv \in tvSet : Identity(tv) = u, lines)] :
     tvSet \in SUBSET {TvA, TvB, TvOld}, lines \in EarlierLines}

\* what the didFinishLaunching handler did: the favourites it loaded, its calls
\* of the host's API and the buildServices of the controllers it constructed
Launched(ran, favs, calls, builds) ==
  [ran |-> ran, favourites |-> favs, calls |-> calls, builds |-> builds]

NoLaunch == Launched(FALSE, <<>>, <<>>, <<>>)

ApiCall(call, uuids) == [call |-> call, uuids |-> uuids]

(***************************************************************************)
(* What a handler did, and observations                                    *)
(***************************************************************************)
RpcEvent(method, arg) == [ev |-> "rpc", what |-> method, arg |-> arg]
UpdateValue(char, value) == [ev |-> "updateValue", what |-> char, arg |-> value]

\* step: the handler; rpc: the outcome of the RPC it resumed from; arg: its
\* argument; refresh: what refreshChannelMap did in it; tuneCh: the channel
\* tuneChannel looked up in it; raised: the operation ended by rejecting
Did(step, rpc, arg, refresh, tuneCh, raised, events) ==
  [step |-> step, rpc |-> rpc, arg |-> arg, refresh |-> refresh,
   tuneCh |-> tuneCh, raised |-> raised, events |-> events]

Outcome(resp) == IF resp.ok THEN "resolved" ELSE "rejected"

\* the same for getContentList, telling a response without entries apart
ListOutcome(resp) ==
  IF ~resp.ok THEN "rejected"
  ELSE IF Len(ContentListOf(resp)) = 0 THEN "empty"
  ELSE "resolved"

Count(events, ev, what) ==
  Cardinality({i \in DOMAIN events : events[i].ev = ev /\ events[i].what = what})

Remove(s, i) == SubSeq(s, 1, i - 1) \o SubSeq(s, i + 1, Len(s))

Min(S) == CHOOSE x \in S : \A y \in S : x <= y

Init0Hist ==
  [prevPower |-> FALSE,          \* this.power before the last step
   prevTimers |-> <<0, TRUE, TRUE>>, \* the timers before the last step
   lastListIssuedAt |-> None,    \* when the latest getContentList was issued
   prevListIssuedAt |-> None,    \* when the one before it was issued
   lastListDoneAt |-> None,      \* when the latest getContentList resolved
   runLen |-> 0,                 \* consecutive polls with the same status (to 3)
   runOn |-> FALSE,              \*   that status, normalized
   runNotes |-> 0,               \*   the change notifications they emitted
   runSet |-> FALSE,             \*   a setPower succeeded among them
   prevPending |-> <<0, 0>>,     \* the requests of the host pending before the last step
   prevShutdown |-> FALSE,       \* 'shutdown' had been emitted before the last step
   quiet |-> FALSE,              \* 'shutdown' was emitted while no RPC was in flight
   list |-> <<>>,                \* the entries of the getContentList response of the last step
   olderInFlight |-> 0,          \* getContentList calls in flight issued before the one the map is from
   staleReplaced |-> FALSE,      \*   the last step replaced the map by the response of such a call
   setSince |-> "none",          \* the setPower that last succeeded while the poll was in flight
   staleFor |-> "none",          \*   the same, for the poll that returned in the last step
   callbacks |-> <<>>]           \* the callbacks of the host the last step called

\* selectIdentifier calls awaiting an RPC
SelectCalls ==
  Cardinality({i \in DOMAIN listCalls : listCalls[i].origin = "tune"}) + Len(playCalls)

\* the 'set' requests of the host that await their callback: Active,
\* ActiveIdentifier
Pending == << Len(setPowerCalls), SelectCalls >>

\* every step records what it found
Seen(h) ==
  [h EXCEPT !.prevPower = power,
            !.prevTimers = <<pollTimers + pollInFlight, timeoutPending, intervalPending>>,
            !.prevPending = Pending,
            !.prevShutdown = shutdown,
            !.list = <<>>,
            !.staleFor = "none",
            !.staleReplaced = FALSE,
            !.callbacks = <<>>]

\* no RPC of the controller is awaited
NoRpcInFlight ==
  pollInFlight = 0 /\ setPowerCalls = <<>> /\ listCalls = <<>> /\ playCalls = <<>>

\* cb(null) of the 'set' handler of a characteristic
Callback(char) == [ev |-> "callback", what |-> char, arg |-> 0]

\* the callbacks the last step called
Called(h, cbs) == [h EXCEPT !.callbacks = cbs]

Issued(h, t) == [h EXCEPT !.prevListIssuedAt = h.lastListIssuedAt, !.lastListIssuedAt = t]

(***************************************************************************)
(* The decisions of the handlers                                           *)
(***************************************************************************)
\* poll: isOn = (status === 'active')
IsOn(resp) == GetPowerStatus(resp) = "active"

\* a poll that assumes the television is off when the call fails
PollPowerOffOnFailure(p, resp) == IF resp.ok THEN IsOn(resp) ELSE FALSE

\* poll: this.power after the tick; the catch block changes nothing
PollPower(p, resp) == IF resp.ok THEN IsOn(resp) ELSE p

\* a poll that republishes every status it reads
PollEventsAlways(p, resp) ==
  IF resp.ok THEN << UpdateValue("Active", IF IsOn(resp) THEN 1 ELSE 0) >> ELSE <<>>

\* poll: if (this.power !== isOn) ... updateValue(isOn ? 1 : 0)
PollEvents(p, resp) ==
  IF resp.ok /\ p # IsOn(resp)
    THEN << UpdateValue("Active", IF IsOn(resp) THEN 1 ELSE 0) >>
    ELSE <<>>

\* a poll that sets its timer at the end of the try block
PollRescheduleInTry(resp) == IF resp.ok THEN 1 ELSE 0

\* poll: finally { this.powerPollTimeout = setTimeout(poll, ...) }: timers set
PollReschedule(resp) == 1

\* a setPower that assigns this.power before it awaits the RPC
SetPowerPowerOptimistic(p, on, resp) == on

\* setPower: this.power after the RPC; a rejected await skips the assignment
SetPowerPower(p, on, resp) == IF resp.ok THEN on ELSE p

\* setPower: updateValue(this.power ? 1 : 0) after a resolved RPC
SetPowerEvents(on, resp) ==
  IF resp.ok THEN << UpdateValue("Active", IF on THEN 1 ELSE 0) >> ELSE <<>>

\* setPower: the RPCs one call issues
SetPowerRpcs(on) == << RpcEvent("setPowerStatus", on) >>

\* selectIdentifier: identifier = Number(identifier) || 0, for an integer
ToIdentifier(identifier) == IF identifier = 0 THEN 0 ELSE identifier

\* a lookup that tunes to the identifier itself when the table has no entry
ChannelOfOrIdentifier(table, identifier) ==
  IF identifier \in DOMAIN table THEN table[identifier]
  ELSE IF identifier > 0 THEN DecStr(identifier) ELSE <<>>

\* selectIdentifier: this.identifierToChannel.get(identifier); <<>> is undefined
ChannelOf(table, identifier) ==
  IF identifier \in DOMAIN table THEN table[identifier] ELSE <<>>

\* a guard that takes the window to be 60 ms
ThrottledMilliseconds(t, last) == t - last < 60

\* a guard that still holds when exactly 60 s have elapsed
ThrottledInclusive(t, last) == t - last <= ThrottleMs

\* refreshChannelMap: if (now - this.lastChannelMapMs < 60 * 1000) return
Throttled(t, last) == t - last < ThrottleMs

\* refreshChannelMap: this.lastChannelMapMs = now, before the RPC is awaited
Stamp(t, last) == t

\* a refresh that lacks the check for a response without entries
RefreshedMapClearing(old, resp) == BuildMap(ContentListOf(resp))

\* refreshChannelMap: the map after a resolved getContentList
RefreshedMap(old, resp) ==
  LET list == ContentListOf(resp)
  IN IF Len(list) = 0 THEN old ELSE BuildMap(list)

\* tuneChannel: ch = String(Number(channelNumber))
TuneKey(channelNumber) == Normalize(channelNumber)

\* tuneChannel: this.channelUriByNumber.get(ch); <<>> is undefined
LookupUri(map, ch) == IF ch \in DOMAIN map THEN map[ch] ELSE <<>>

\* a tuneChannel that lacks the check for a missing uri
TuneEventsUnchecked(uri) == << RpcEvent("setPlayContent", uri) >>

\* tuneChannel: if (!channelUri) return; else setPlayContent
TuneEvents(uri) == IF uri = <<>> THEN <<>> ELSE << RpcEvent("setPlayContent", uri) >>

\* a 'set' handler without its catch: no callback for an operation that rejects
SetCallbacksNoCatch(char, settled, rejected) ==
  IF settled /\ ~rejected THEN << Callback(char) >> ELSE <<>>

\* the 'set' handlers: op.then(() => cb(null)).catch(err => { log; cb(null) }):
\* the callbacks called in the step in which the operation has settled or not
SetCallbacks(char, settled, rejected) ==
  IF settled THEN << Callback(char) >> ELSE <<>>

\* a shutdown handler that leaves the poll timer alone
ShutdownKeepsPollTimers(n) == n

\* the shutdown handler: clearTimeout(this.powerPollTimeout) clears the timer
\* set last, if it is still pending
ShutdownPollTimers(n) == IF n > 0 THEN n - 1 ELSE 0

(***************************************************************************)
(* State after construction                                                *)
(***************************************************************************)
\* the platform once didFinishLaunching is over. The specifications of the
\* controller do not follow it: one television is configured, and what the
\* launch loaded, built and registered is left out
PlatformAtRest ==
  /\ config = Config(TRUE, None, << TvA >>)
  /\ file = FileOf("present", <<>>)
  /\ accessoriesByUUID = {}
  /\ directory = EmptyMap
  /\ launch = Launched(TRUE, <<>>, <<>>, <<>>)

Init ==
  /\ now = StartMs
  /\ steps = 0
  /\ power = FALSE
  /\ activeIdentifier = 0
  /\ \E favs \in FavouriteLists : identifierToChannel = BuildTable(favs)
  /\ channelUriByNumber = EmptyMap
  /\ lastChannelMapMs = 0
  /\ pollTimers = 0
  /\ pollInFlight = 1            \* startPollingPower calls poll() at once
  /\ timeoutPending = TRUE
  /\ intervalPending = TRUE
  /\ intervalDueMs = StartMs + IntervalMs
  /\ setPowerCalls = <<>>
  /\ listCalls = <<>>
  /\ playCalls = <<>>
  /\ shutdown = FALSE
  /\ out = Did("constructor", "none", 0, "none", <<>>, FALSE,
               << RpcEvent("getPowerStatus", 0) >>)
  /\ hist = [Init0Hist EXCEPT !.prevTimers = <<1, TRUE, TRUE>>]
  /\ PlatformAtRest

clockVars == <<now, steps>>
powerVars == <<power, pollTimers, pollInFlight, setPowerCalls>>
channelVars == <<activeIdentifier, channelUriByNumber, lastChannelMapMs,
                 listCalls, playCalls>>
timerVars == <<timeoutPending, intervalPending, intervalDueMs>>
platformVars == <<config, file, accessoriesByUUID, directory, launch>>
\* the fields of the controller and its timers and calls
controllerVars == <<power, activeIdentifier, identifierToChannel, channelUriByNumber,
                    lastChannelMapMs, pollTimers, pollInFlight, timeoutPending,
                    intervalPending, intervalDueMs, setPowerCalls, listCalls,
                    playCalls, shutdown>>

(***************************************************************************)
(* Power monitor                                                           *)
(***************************************************************************)
\* the timer set by poll fires: poll() issues getPowerStatus
PollTimerFires ==
  /\ pollTimers > 0
  /\ pollTimers' = pollTimers - 1
  /\ pollInFlight' = pollInFlight + 1
  /\ out' = Did("poll", "none", 0, "none", <<>>, FALSE,
                << RpcEvent("getPowerStatus", 0) >>)
  /\ hist' = [Seen(hist) EXCEPT !.setSince = "none"]
  /\ UNCHANGED <<power, setPowerCalls, identifierToChannel, shutdown>>
  /\ UNCHANGED <<clockVars, channelVars, timerVars>>
  /\ UNCHANGED platformVars

\* consecutive polls with the same status
RunAfterPoll(h, p, resp) ==
  IF ~resp.ok THEN [h EXCEPT !.runLen = 0, !.runNotes = 0, !.runSet = FALSE]
  ELSE LET same == h.runLen > 0 /\ h.runOn = IsOn(resp)
           notes == Len(PollEvents(p, resp))
       IN [h EXCEPT !.runLen = IF same THEN Min({h.runLen + 1, 3}) ELSE 1,
                    !.runOn = IsOn(resp),
                    !.runNotes = IF same THEN Min({h.runNotes + notes, 3}) ELSE notes,
                    !.runSet = IF same THEN h.runSet ELSE FALSE]

\* getPowerStatus returns to poll: try / catch / finally
PollReturn(resp) ==
  /\ pollInFlight > 0
  /\ pollInFlight' = pollInFlight - 1
  /\ power' = PollPower(power, resp)
  /\ pollTimers' = pollTimers + PollReschedule(resp)
  /\ out' = Did("pollReturn", Outcome(resp), IsOn(resp), "none", <<>>, FALSE,
                PollEvents(power, resp))
  /\ hist' = [RunAfterPoll(Seen(hist), power, resp)
                EXCEPT !.staleFor = hist.setSince, !.setSince = "none"]
  /\ UNCHANGED <<setPowerCalls, identifierToChannel, shutdown>>
  /\ UNCHANGED <<clockVars, channelVars, timerVars>>
  /\ UNCHANGED platformVars

(***************************************************************************)
(* setPower                                                                *)
(***************************************************************************)
\* the Active 'set' handler calls setPower(!!value), which awaits the RPC
SetPower(on) ==
  /\ Len(setPowerCalls) < MaxSetPowerCalls
  /\ setPowerCalls' = Append(setPowerCalls, on)
  /\ out' = Did("setPower", "none", on, "none", <<>>, FALSE, SetPowerRpcs(on))
  /\ hist' = Seen(hist)
  /\ UNCHANGED <<power, pollTimers, pollInFlight, identifierToChannel, shutdown>>
  /\ UNCHANGED <<clockVars, channelVars, timerVars>>
  /\ UNCHANGED platformVars

\* setPowerStatus returns to setPower; a rejection reaches the handler's catch
SetPowerReturn(i, resp) ==
  /\ i \in DOMAIN setPowerCalls
  /\ setPowerCalls' = Remove(setPowerCalls, i)
  /\ power' = SetPowerPower(power, setPowerCalls[i], resp)
  /\ out' = Did("setPowerReturn", Outcome(resp), setPowerCalls[i], "none", <<>>,
                ~resp.ok, SetPowerEvents(setPowerCalls[i], resp))
  /\ hist' = [Called(Seen(hist), SetCallbacks("Active", TRUE, ~resp.ok))
                EXCEPT !.runSet = IF resp.ok /\ hist.runLen > 0
                                    THEN TRUE ELSE hist.runSet,
                       !.setSince = IF resp.ok /\ pollInFlight > 0
                                      THEN (IF setPowerCalls[i] THEN "on" ELSE "off")
                                      ELSE hist.setSince]
  /\ UNCHANGED <<pollTimers, pollInFlight, identifierToChannel, shutdown>>
  /\ UNCHANGED <<clockVars, channelVars, timerVars>>
  /\ UNCHANGED platformVars

(***************************************************************************)
(* Channel resolver and selectIdentifier                                   *)
(***************************************************************************)
\* a timer whose refresh passes by the guard
TimerRefreshUnguarded(step) ==
  /\ lastChannelMapMs' = Stamp(now, lastChannelMapMs)
  /\ listCalls' = Append(listCalls, [origin |-> "timer", ch |-> <<>>])
  /\ out' = Did(step, "none", 0, "issued", <<>>, FALSE,
                << RpcEvent("getContentList", 0) >>)
  /\ hist' = Issued(Seen(hist), now)

\* refreshChannelMap up to its await, called by a timer: the guard, the stamp
\* and the getContentList RPC
TimerRefresh(step) ==
  IF Throttled(now, lastChannelMapMs)
    THEN /\ out' = Did(step, "none", 0, "noop", <<>>, FALSE, <<>>)
         /\ hist' = Seen(hist)
         /\ UNCHANGED <<lastChannelMapMs, listCalls>>
    ELSE /\ lastChannelMapMs' = Stamp(now, lastChannelMapMs)
         /\ listCalls' = Append(listCalls, [origin |-> "timer", ch |-> <<>>])
         /\ out' = Did(step, "none", 0, "issued", <<>>, FALSE,
                       << RpcEvent("getContentList", 0) >>)
         /\ hist' = Issued(Seen(hist), now)

\* setTimeout(() => this.refreshChannelMap().catch(() => {}), 2000)
InitialTimerFires ==
  /\ timeoutPending
  /\ now >= StartMs + InitialDelayMs
  /\ timeoutPending' = FALSE
  /\ TimerRefresh("initialTimer")
  /\ UNCHANGED <<activeIdentifier, channelUriByNumber, playCalls>>
  /\ UNCHANGED <<intervalPending, intervalDueMs, identifierToChannel, shutdown>>
  /\ UNCHANGED <<clockVars, powerVars>>
  /\ UNCHANGED platformVars

\* setInterval(() => this.refreshChannelMap().catch(() => {}), 6 h)
IntervalFires ==
  /\ intervalPending
  /\ now >= intervalDueMs
  /\ intervalDueMs' = intervalDueMs + IntervalMs
  /\ TimerRefresh("interval")
  /\ UNCHANGED <<activeIdentifier, channelUriByNumber, playCalls>>
  /\ UNCHANGED <<timeoutPending, intervalPending, identifierToChannel, shutdown>>
  /\ UNCHANGED <<clockVars, powerVars>>
  /\ UNCHANGED platformVars

\* the ActiveIdentifier 'set' handler calls selectIdentifier(identifier), which
\* runs to its first awaited RPC (or to its end)
SelectIdentifier(id) ==
  LET identifier == ToIdentifier(id)
      note == << UpdateValue("ActiveIdentifier", identifier) >>
      channel == ChannelOf(identifierToChannel, identifier)
      ch == TuneKey(channel)
      uri == LookupUri(channelUriByNumber, ch)
  IN /\ SelectCalls < MaxSelectCalls
     /\ activeIdentifier' = identifier
     /\ IF channel = <<>>
          THEN \* if (!channel) return
               /\ out' = Did("select", "none", identifier, "none", <<>>, FALSE, note)
               /\ hist' = Called(Seen(hist), SetCallbacks("ActiveIdentifier", TRUE, FALSE))
               /\ UNCHANGED <<lastChannelMapMs, listCalls, playCalls>>
          ELSE IF Throttled(now, lastChannelMapMs)
          THEN \* tuneChannel: the refresh returns at once, then the lookup
               /\ out' = Did("select", "none", identifier, "noop", ch, FALSE,
                             note \o TuneEvents(uri))
               /\ hist' = Called(Seen(hist),
                                 SetCallbacks("ActiveIdentifier", TuneEvents(uri) = <<>>, FALSE))
               /\ playCalls' = playCalls \o [i \in 1..Len(TuneEvents(uri)) |-> uri]
               /\ UNCHANGED <<lastChannelMapMs, listCalls>>
          ELSE \* tuneChannel: the refresh awaits getContentList
               /\ lastChannelMapMs' = Stamp(now, lastChannelMapMs)
               /\ listCalls' = Append(listCalls, [origin |-> "tune", ch |-> ch])
               /\ out' = Did("select", "none", identifier, "issued", <<>>, FALSE,
                             note \o << RpcEvent("getContentList", 0) >>)
               /\ hist' = Issued(Seen(hist), now)
               /\ UNCHANGED playCalls
     /\ UNCHANGED <<channelUriByNumber, identifierToChannel, shutdown>>
     /\ UNCHANGED <<clockVars, powerVars, timerVars>>
     /\ UNCHANGED platformVars

\* getContentList returns to refreshChannelMap; for a call of tuneChannel the
\* rejection is swallowed and the lookup follows in the same turn
ListReturn(i, resp) ==
  /\ i \in DOMAIN listCalls
  /\ LET call == listCalls[i]
         map == IF resp.ok THEN RefreshedMap(channelUriByNumber, resp)
                ELSE channelUriByNumber
         uri == LookupUri(map, call.ch)
         events == IF call.origin = "tune" THEN TuneEvents(uri) ELSE <<>>
     IN /\ listCalls' = Remove(listCalls, i)
        /\ channelUriByNumber' = map
        /\ playCalls' = playCalls \o [k \in 1..Len(events) |-> uri]
        /\ out' = Did("listReturn", ListOutcome(resp), call.origin, "none", call.ch,
                      FALSE, events)
        /\ hist' = [Called(Seen(hist),
                            IF call.origin = "tune"
                              THEN SetCallbacks("ActiveIdentifier", events = <<>>, FALSE)
                              ELSE <<>>)
                      EXCEPT !.lastListDoneAt = IF resp.ok THEN now ELSE hist.lastListDoneAt,
                             !.list = IF resp.ok THEN ContentListOf(resp) ELSE <<>>,
                             !.olderInFlight =
                                IF ListOutcome(resp) = "resolved" THEN i - 1
                                ELSE IF i <= hist.olderInFlight THEN hist.olderInFlight - 1
                                ELSE hist.olderInFlight,
                             !.staleReplaced =
                                ListOutcome(resp) = "resolved" /\ i <= hist.olderInFlight]
  /\ UNCHANGED <<activeIdentifier, lastChannelMapMs, identifierToChannel, shutdown>>
  /\ UNCHANGED <<clockVars, powerVars, timerVars>>
  /\ UNCHANGED platformVars

\* setPlayContent returns to tuneChannel; a rejection reaches the handler's catch
PlayReturn(i, resp) ==
  /\ i \in DOMAIN playCalls
  /\ playCalls' = Remove(playCalls, i)
  /\ out' = Did("playReturn", Outcome(resp), playCalls[i], "none", <<>>, ~resp.ok, <<>>)
  /\ hist' = Called(Seen(hist), SetCallbacks("ActiveIdentifier", TRUE, ~resp.ok))
  /\ UNCHANGED <<activeIdentifier, channelUriByNumber, lastChannelMapMs, listCalls>>
  /\ UNCHANGED <<identifierToChannel, shutdown>>
  /\ UNCHANGED <<clockVars, powerVars, timerVars>>
  /\ UNCHANGED platformVars

(***************************************************************************)
(* Shutdown                                                                *)
(***************************************************************************)
\* api.on('shutdown', ...): clearTimeout / clearInterval on the three handles
Shutdown ==
  /\ shutdown' = TRUE
  /\ pollTimers' = ShutdownPollTimers(pollTimers)
  /\ timeoutPending' = FALSE
  /\ intervalPending' = FALSE
  /\ out' = Did("shutdown", "none", 0, "none", <<>>, FALSE, <<>>)
  /\ hist' = [Seen(hist) EXCEPT !.quiet = hist.quiet \/ NoRpcInFlight]
  /\ UNCHANGED <<power, pollInFlight, setPowerCalls, intervalDueMs, identifierToChannel>>
  /\ UNCHANGED <<clockVars, channelVars>>
  /\ UNCHANGED platformVars

(***************************************************************************)
(* The clock                                                               *)
(***************************************************************************)
\* when the pending channel-map timers are due
Due == {StartMs + InitialDelayMs : x \in {y \in {1} : timeoutPending}}
         \cup {intervalDueMs : x \in {y \in {1} : intervalPending}}

\* time passes: by StepMs, or up to the next channel-map timer if that is
\* sooner. A timer that is due fires before time passes on. The poll timer is
\* not timed: it fires at any moment after it was set.
Advance ==
  /\ \A t \in Due : t > now
  /\ now' = Min({now + StepMs} \cup Due)
  /\ steps' = IF now' = now + StepMs THEN steps + 1 ELSE steps
  /\ steps' <= MaxSteps
  /\ out' = Did("advance", "none", 0, "none", <<>>, FALSE, <<>>)
  /\ hist' = Seen(hist)
  /\ UNCHANGED <<identifierToChannel, shutdown>>
  /\ UNCHANGED <<powerVars, channelVars, timerVars>>
  /\ UNCHANGED platformVars

\* the idle hours up to StepMs before the first firing of the 6 h timer are
\* skipped, and a new span of time is observed
Skip ==
  /\ \A t \in Due : t > now
  /\ now < StartMs + IntervalMs - StepMs
  /\ \A t \in Due : t >= StartMs + IntervalMs
  /\ now' = StartMs + IntervalMs - StepMs
  /\ steps' = 0
  /\ out' = Did("skip", "none", 0, "none", <<>>, FALSE, <<>>)
  /\ hist' = Seen(hist)
  /\ UNCHANGED <<identifierToChannel, shutdown>>
  /\ UNCHANGED <<powerVars, channelVars, timerVars>>
  /\ UNCHANGED platformVars

(***************************************************************************)
(* The platform                                                            *)
(***************************************************************************)
\* the state after the constructor of the platform: no controller exists
PlatformInit ==
  /\ now = StartMs
  /\ steps = 0
  /\ power = FALSE
  /\ activeIdentifier = 0
  /\ identifierToChannel = EmptyMap
  /\ channelUriByNumber = EmptyMap
  /\ lastChannelMapMs = 0
  /\ pollTimers = 0
  /\ pollInFlight = 0
  /\ timeoutPending = FALSE
  /\ intervalPending = FALSE
  /\ intervalDueMs = 0
  /\ setPowerCalls = <<>>
  /\ listCalls = <<>>
  /\ playCalls = <<>>
  /\ shutdown = FALSE
  /\ out = Did("platform", "none", 0, "none", <<>>, FALSE, <<>>)
  /\ hist = Init0Hist
  /\ \/ \* one television, any favourites file
        /\ \E max \in MaxFavouritesValues : config = Config(TRUE, max, << TvA >>)
        /\ file \in Files
        /\ directory \in {d \in Directories : DOMAIN d \subseteq {Identity(TvA)}}
     \/ \* any televisions, one favourites file
        /\ \E psk \in BOOLEAN, tvs \in TvLists : config = Config(psk, None, tvs)
        /\ file = FileOf("present", JoinLines(<< LineITV007 >>))
        /\ directory \in Directories
  /\ accessoriesByUUID = {}
  /\ launch = NoLaunch

\* configureAccessory(accessory): the host hands over an accessory of its cache
ConfigureAccessory(uuid) ==
  /\ ~launch.ran
  /\ uuid \in DOMAIN directory
  /\ uuid \notin accessoriesByUUID
  /\ accessoriesByUUID' = accessoriesByUUID \cup {uuid}
  /\ UNCHANGED <<config, file, directory, launch>>
  /\ UNCHANGED <<identifierToChannel, shutdown, out, hist>>
  /\ UNCHANGED <<clockVars, powerVars, channelVars, timerVars>>

\* the loop over this.tvs: the configured UUIDs, the host's accessories, the
\* calls of the host's API and the controllers built after the first n entries
RECURSIVE ReconcileUpTo(_, _, _, _, _)
ReconcileUpTo(tvs, favs, known, dir, n) ==
  IF n = 0
    THEN [configured |-> {}, directory |-> dir, calls |-> <<>>, builds |-> <<>>]
  ELSE LET a == ReconcileUpTo(tvs, favs, known, dir, n - 1)
           tvCfg == tvs[n]
           uuid == Identity(tvCfg)
           cached == uuid \in known
           before == IF cached THEN a.directory[uuid] ELSE Accessory({InfoService}, <<>>)
           b == BuildServices(before.services, tvCfg.name, favs)
       IN IF tvCfg.name = <<>> \/ tvCfg.ip = <<>> THEN a
          ELSE [configured |-> a.configured \cup {uuid},
                directory |-> MapSet(a.directory, uuid, Accessory(b.services, favs)),
                calls |-> Append(a.calls,
                                 ApiCall(IF cached THEN "updatePlatformAccessories"
                                         ELSE "registerPlatformAccessories", {uuid})),
                builds |-> Append(a.builds,
                                  [uuid |-> uuid, cached |-> cached, before |-> before,
                                   removed |-> b.removed, added |-> b.added,
                                   services |-> b.services,
                                   inputServices |-> b.inputServices,
                                   table |-> b.table])]

\* the constructor of BraviaTvController, but for buildServices
Constructed(table) ==
  /\ power' = FALSE
  /\ activeIdentifier' = 0
  /\ identifierToChannel' = table
  /\ channelUriByNumber' = EmptyMap
  /\ lastChannelMapMs' = 0
  /\ pollTimers' = 0
  /\ pollInFlight' = 1
  /\ timeoutPending' = TRUE
  /\ intervalPending' = TRUE
  /\ intervalDueMs' = now + IntervalMs
  /\ setPowerCalls' = <<>>
  /\ listCalls' = <<>>
  /\ playCalls' = <<>>
  /\ shutdown' = FALSE
  /\ out' = Did("constructor", "none", 0, "none", <<>>, FALSE,
                << RpcEvent("getPowerStatus", 0) >>)
  /\ hist' = [Init0Hist EXCEPT !.prevTimers = <<1, TRUE, TRUE>>]

\* api.on('didFinishLaunching', ...), registered when psk and tvs are configured;
\* the host emits it once, after it has handed over every accessory of its
\* cache. The controller followed from here on is the one constructed last.
DidFinishLaunching ==
  /\ config.psk
  /\ Len(config.tvs) > 0
  /\ ~launch.ran
  /\ accessoriesByUUID = DOMAIN directory
  /\ LET ensured == EnsureFavouritesFile(file)
         favourites == LoadFavourites(ensured, config)
         r == ReconcileUpTo(config.tvs, favourites, accessoriesByUUID, directory,
                            Len(config.tvs))
         stale == {uuid \in accessoriesByUUID : uuid \notin r.configured}
         calls == IF stale # {}
                    THEN Append(r.calls, ApiCall("unregisterPlatformAccessories", stale))
                    ELSE r.calls
     IN /\ file' = ensured
        /\ directory' = [uuid \in (DOMAIN r.directory) \ stale |-> r.directory[uuid]]
        /\ launch' = Launched(TRUE, favourites, calls, r.builds)
        /\ IF r.builds # <<>>
             THEN Constructed(r.builds[Len(r.builds)].table)
             ELSE /\ out' = Did("didFinishLaunching", "none", 0, "none", <<>>, FALSE, <<>>)
                  /\ UNCHANGED <<identifierToChannel, shutdown, hist>>
                  /\ UNCHANGED <<powerVars, channelVars, timerVars>>
  /\ UNCHANGED <<config, accessoriesByUUID>>
  /\ UNCHANGED clockVars

(***************************************************************************)
(* Specifications                                                          *)
(***************************************************************************)
\* the handlers that read or write this.power and the poll timer
PowerNext ==
  \/ PollTimerFires
  \/ \E resp \in PowerResponses : PollReturn(resp)
  \/ \E on \in BOOLEAN : SetPower(on)
  \/ \E i \in DOMAIN setPowerCalls, resp \in SetResponses : SetPowerReturn(i, resp)
  \/ Shutdown

\* the handlers that read or write the channel map, its timers and the selection
ChannelNext ==
  \/ InitialTimerFires
  \/ IntervalFires
  \/ \E id \in SelectIdentifiers : SelectIdentifier(id)
  \/ \E i \in DOMAIN listCalls, resp \in ListResponses : ListReturn(i, resp)
  \/ \E i \in DOMAIN playCalls, resp \in SetResponses : PlayReturn(i, resp)
  \/ Shutdown
  \/ Advance
  \/ Skip

\* the timers of the controller, the RPCs they issue and the shutdown handler
TimerNext ==
  \/ PollTimerFires
  \/ \E resp \in PowerResponses : PollReturn(resp)
  \/ InitialTimerFires
  \/ IntervalFires
  \/ \E i \in DOMAIN listCalls, resp \in ListResponses : ListReturn(i, resp)
  \/ Shutdown
  \/ Advance
  \/ Skip

\* the refresh of the channel map by the 2 s timer, for any entries in the
\* response
DerivationNext ==
  \/ InitialTimerFires
  \/ \E i \in DOMAIN listCalls, resp \in DerivationResponses : ListReturn(i, resp)
  \/ Advance

\* the requests of the host: the 'set' handlers of Active and ActiveIdentifier
\* with the operations they start, from the call to the callback
RequestNext ==
  \/ \E on \in BOOLEAN : SetPower(on)
  \/ \E i \in DOMAIN setPowerCalls, resp \in SetResponses : SetPowerReturn(i, resp)
  \/ \E id \in SelectIdentifiers : SelectIdentifier(id)
  \/ \E i \in DOMAIN listCalls, resp \in ListResponses : ListReturn(i, resp)
  \/ \E i \in DOMAIN playCalls, resp \in SetResponses : PlayReturn(i, resp)

\* the platform from its construction to the end of didFinishLaunching
PlatformNext ==
  \/ \E uuid \in DOMAIN directory : ConfigureAccessory(uuid)
  \/ DidFinishLaunching

Next ==
  PowerNext \/ ChannelNext \/ TimerNext \/ DerivationNext \/ RequestNext \/ PlatformNext

\* the whole controller
Spec == Init /\ [][Next]_vars

\* The two groups of handlers share no field of the controller (only the
\* shutdown event reaches both), so each is explored with the other at rest;
\* the timers of both groups, the requests of the host, the derivation of the
\* channel numbers and the platform are explored each on its own.
SpecPower == Init /\ [][PowerNext]_vars

SpecChannel == Init /\ [][ChannelNext]_vars

SpecTimers == Init /\ [][TimerNext]_vars

SpecDerivation == Init /\ [][DerivationNext]_vars

SpecRequests == Init /\ [][RequestNext]_vars

SpecPlatform == PlatformInit /\ [][PlatformNext]_vars

(***************************************************************************)
(* Properties                                                              *)
(***************************************************************************)
\* the last step called refreshChannelMap
RefreshAttempt == out.refresh # "none"

\* when the latest getContentList before the last step's attempt was issued
IssuedBefore ==
  IF out.refresh = "issued" THEN hist.prevListIssuedAt ELSE hist.lastListIssuedAt

\* the change notification of the power state
ActiveNote(on) == UpdateValue("Active", IF on THEN 1 ELSE 0)

\* C1: refresh throttling. Whatever triggers it (selectIdentifier, the 2 s
\* timer, the 6 h timer), a call of refreshChannelMap issues at most one
\* getContentList; two getContentList calls are never issued less than 60 s
\* apart; and a call made less than 60 s after a getContentList was issued
\* (in flight or not) issues none.
C1_RefreshThrottled ==
  /\ Count(out.events, "rpc", "getContentList") = (IF out.refresh = "issued" THEN 1 ELSE 0)
  /\ hist.prevListIssuedAt # None
       => hist.lastListIssuedAt - hist.prevListIssuedAt >= ThrottleMs
  /\ (RefreshAttempt /\ IssuedBefore # None /\ now - IssuedBefore < ThrottleMs)
       => out.refresh = "noop"

\* C1 witness: a refresh attempt finds the only getContentList ever issued still
\* in flight, inside the window, and issues nothing
C1_Witness ==
  /\ out.refresh = "noop"
  /\ hist.prevListIssuedAt = None
  /\ hist.lastListIssuedAt # None
  /\ now - hist.lastListIssuedAt < ThrottleMs
  /\ Len(listCalls) = 1

\* C2 (as claimed): once shutdown was requested, no poll timer is pending and no
\* getPowerStatus is issued
C2_NoPollAfterShutdown ==
  shutdown => (pollTimers = 0 /\ out.step # "poll")

\* C3: before shutdown exactly one poll tick is pending as a timer or in flight,
\* and a tick that ends, failed or not, leaves exactly one timer and no call
C3_OneTickAtATime ==
  ~shutdown =>
    /\ pollTimers + pollInFlight = 1
    /\ out.step = "pollReturn" => (pollTimers = 1 /\ pollInFlight = 0)

\* C3 witness: a failed tick has set the timer of the next one
C3_Witness ==
  ~shutdown /\ out.step = "pollReturn" /\ out.rpc = "rejected" /\ pollTimers = 1

\* C4: a poll tick whose RPC is rejected (request error, status >= 400, body
\* that is no JSON) leaves this.power as it was and calls no updateValue
C4_FailedPollKeepsState ==
  (out.step = "pollReturn" /\ out.rpc = "rejected")
     => (power = hist.prevPower /\ out.events = <<>>)

\* C4 witness: a tick failed while the television was known to be on
C4_Witness ==
  out.step = "pollReturn" /\ out.rpc = "rejected" /\ power = TRUE

\* C5 (as claimed): three consecutive polls with the same status fire exactly one
\* change notification
C5_ExactlyOneNotification ==
  hist.runLen = 3 => hist.runNotes = 1

\* C5 (amended): a tick notifies exactly when its normalized status differs from
\* this.power, which it then sets; three consecutive polls with the same status
\* and no successful setPower among them fire at most one notification
C5_ChangeOnly ==
  /\ (out.step = "pollReturn" /\ out.rpc = "resolved")
       => /\ power = out.arg
          /\ out.events = IF hist.prevPower # out.arg THEN << ActiveNote(out.arg) >> ELSE <<>>
  /\ (hist.runLen = 3 /\ ~hist.runSet) => hist.runNotes <= 1

\* C5 witness: three consecutive polls reported the same status, the first of
\* them changed the state and notified
C5_Witness ==
  hist.runLen = 3 /\ ~hist.runSet /\ hist.runNotes = 1 /\ out.step = "pollReturn"

\* C6: setPower issues one setPowerStatus and nothing else; when the RPC
\* resolves this.power is the requested value and one notification is emitted;
\* when it is rejected nothing is issued again, this.power is unchanged, nothing
\* is notified, the rejection reaches the caller and the timers are as before
C6_SetPower ==
  /\ out.step = "setPower"
       => (out.events = << RpcEvent("setPowerStatus", out.arg) >> /\ power = hist.prevPower)
  /\ (out.step = "setPowerReturn" /\ out.rpc = "resolved")
       => (power = out.arg /\ out.events = << ActiveNote(out.arg) >> /\ ~out.raised)
  /\ (out.step = "setPowerReturn" /\ out.rpc = "rejected")
       => /\ power = hist.prevPower
          /\ out.events = <<>>
          /\ out.raised
          /\ <<pollTimers + pollInFlight, timeoutPending, intervalPending>> = hist.prevTimers

\* C6 witness: a setPower to the other state was rejected
C6_Witness ==
  /\ out.step = "setPowerReturn" /\ out.rpc = "rejected"
  /\ out.arg # power
  /\ pollTimers + pollInFlight = 1

\* C7: selectIdentifier records the identifier and notifies first; without an
\* entry in identifierToChannel it ends there: no refresh, no RPC, no rejection
C7_SelectRecords ==
  out.step = "select" =>
    /\ activeIdentifier = out.arg
    /\ Len(out.events) >= 1
    /\ out.events[1] = UpdateValue("ActiveIdentifier", out.arg)
    /\ out.arg \notin DOMAIN identifierToChannel
         => (Len(out.events) = 1 /\ out.refresh = "none" /\ out.tuneCh = <<>> /\ ~out.raised)

\* C7 witness: an identifier out of range, or a number that is no favourite,
\* was selected
C7_Witness ==
  /\ out.step = "select"
  /\ out.arg # 0
  /\ out.arg \notin DOMAIN identifierToChannel
  /\ activeIdentifier = out.arg

\* the channel numbers selectIdentifier can hand to tuneChannel, normalized
TunableKeys == {Normalize(identifierToChannel[k]) : k \in DOMAIN identifierToChannel}

\* C8: when tuneChannel looks a channel up (at once, or after its refresh ended,
\* rejected or not), no entry in the map means no setPlayContent and no
\* rejection; an entry means one setPlayContent with the uri the map holds
C8_TuneLookup ==
  out.tuneCh # <<>> =>
    /\ out.tuneCh \in TunableKeys
    /\ ~out.raised
    /\ IF out.tuneCh \in DOMAIN channelUriByNumber
         THEN /\ Count(out.events, "rpc", "setPlayContent") = 1
              /\ out.events[Len(out.events)] =
                   RpcEvent("setPlayContent", channelUriByNumber[out.tuneCh])
              /\ Len(playCalls) >= 1
              /\ playCalls[Len(playCalls)] = channelUriByNumber[out.tuneCh]
         ELSE Count(out.events, "rpc", "setPlayContent") = 0

\* C8 witness: the refresh of a tuneChannel was rejected and the uri of the map
\* as it was is played
C8_Witness ==
  /\ out.step = "listReturn" /\ out.rpc = "rejected" /\ out.arg = "tune"
  /\ Count(out.events, "rpc", "setPlayContent") = 1

\* C8 witness of the other case: a map with entries has none for the channel
C8_WitnessNotFound ==
  /\ out.tuneCh # <<>>
  /\ channelUriByNumber # EmptyMap
  /\ out.tuneCh \notin DOMAIN channelUriByNumber

\* the maps a response with entries builds
WholeMaps == {BuildMap(l) : l \in ContentLists \ {<<>>}}

\* C9 (as claimed): the map, once it has entries, is never cleared
C9_NeverCleared ==
  [][channelUriByNumber # EmptyMap => channelUriByNumber' # EmptyMap]_vars

\* C9 (amended): the map is always empty or the whole map built from one
\* response with entries, and a getContentList that is rejected or has no
\* entries leaves it as it was
C9_MapReplacedWhole ==
  /\ [](channelUriByNumber = EmptyMap \/ channelUriByNumber \in WholeMaps)
  /\ [][(out'.step = "listReturn" /\ out'.rpc \in {"rejected", "empty"})
          => channelUriByNumber' = channelUriByNumber]_vars

\* C9 witness: a response without entries arrived while the map had entries
C9_Witness ==
  out.step = "listReturn" /\ out.rpc = "empty" /\ channelUriByNumber # EmptyMap

\* C10 (as claimed): refreshChannelMap does nothing exactly when a refresh
\* completed less than 60 s ago
C10_WindowFromCompletion ==
  RefreshAttempt =>
    (out.refresh = "noop"
       <=> (hist.lastListDoneAt # None /\ now - hist.lastListDoneAt < ThrottleMs))

\* C10 (amended): refreshChannelMap does nothing exactly when a getContentList
\* was issued less than 60 s ago, whether that call has resolved, was rejected
\* or is still in flight; otherwise it issues one getContentList
C10_WindowFromIssue ==
  RefreshAttempt =>
    /\ out.refresh = "noop" <=> (IssuedBefore # None /\ now - IssuedBefore < ThrottleMs)
    /\ out.refresh = "issued" <=> Count(out.events, "rpc", "getContentList") = 1

\* C10 witness: exactly 60 s after a getContentList was issued the next attempt
\* issues one again
C10_Witness ==
  out.refresh = "issued" /\ IssuedBefore # None /\ now - IssuedBefore = ThrottleMs

\* the keys of a set of services
Keys(services) == {ServiceKey(s) : s \in services}

\* the buildServices calls of the launch
Builds == {launch.builds[i] : i \in DOMAIN launch.builds}

\* C11 (as claimed): buildServices on a cached accessory updates in place: it
\* removes the services whose key the new favourites no longer give and adds
\* those whose key the accessory did not have, so that with the favourites the
\* accessory was last built from it removes nothing and adds nothing
C11_RebuildInPlace ==
  \A b \in Builds :
     b.cached =>
       /\ b.removed = {s \in b.before.services : ServiceKey(s) \notin Keys(b.services)}
       /\ b.added = Keys(b.services) \ Keys(b.before.services)
       /\ b.before.favourites = launch.favourites => (b.removed = {} /\ b.added = {})

\* the identities of the configured televisions that have a name and an ip
ConfiguredIdentities ==
  {Identity(config.tvs[i]) :
     i \in {k \in DOMAIN config.tvs : config.tvs[k].name # <<>> /\ config.tvs[k].ip # <<>>}}

\* how often the launch made this call of the host's API for this accessory
Calls(call, uuid) ==
  Cardinality({i \in DOMAIN launch.calls :
                 launch.calls[i].call = call /\ uuid \in launch.calls[i].uuids})

\* the batches of accessories the launch unregistered
Unregistered ==
  {i \in DOMAIN launch.calls : launch.calls[i].call = "unregisterPlatformAccessories"}

\* C12 (as claimed): after didFinishLaunching the host has exactly the
\* accessories of the configured televisions with name and ip; one it had
\* cached is updated and not registered, one it had not is registered once,
\* and the cached accessories of no configured television are unregistered in
\* one call
C12_FleetReconciled ==
  launch.ran =>
    /\ DOMAIN directory = ConfiguredIdentities
    /\ \A uuid \in ConfiguredIdentities :
         IF uuid \in accessoriesByUUID
           THEN /\ Calls("registerPlatformAccessories", uuid) = 0
                /\ Calls("updatePlatformAccessories", uuid) >= 1
           ELSE /\ Calls("registerPlatformAccessories", uuid) = 1
                /\ Calls("updatePlatformAccessories", uuid) = 0
    /\ Cardinality(Unregistered) = (IF accessoriesByUUID \subseteq ConfiguredIdentities
                                     THEN 0 ELSE 1)
    /\ \A i \in Unregistered :
         launch.calls[i].uuids = accessoriesByUUID \ ConfiguredIdentities

\* the requests of the host the last step started
Started ==
  << IF out.step = "setPower" THEN 1 ELSE 0, IF out.step = "select" THEN 1 ELSE 0 >>

\* the callbacks of a characteristic the last step called
CallbacksOf(char) == Count(hist.callbacks, "callback", char)

\* C13: every 'set' request of Active and of ActiveIdentifier gets its callback
\* exactly once: a step calls one callback for each request that ends in it and
\* none else. The callback of setPower comes with the RPC's return, when
\* this.power has been assigned (resolved) or left as it was (rejected); that
\* of selectIdentifier when the operation ends, resolved or rejected, with
\* this.activeIdentifier assigned before
C13_CallbackOnce ==
  /\ CallbacksOf("Active") = hist.prevPending[1] + Started[1] - Pending[1]
  /\ CallbacksOf("ActiveIdentifier") = hist.prevPending[2] + Started[2] - Pending[2]
  /\ Len(hist.callbacks) = CallbacksOf("Active") + CallbacksOf("ActiveIdentifier")
  /\ Len(hist.callbacks) <= 1
  /\ out.step = "setPower" => hist.callbacks = <<>>
  /\ out.step = "setPowerReturn"
       => /\ hist.callbacks = << Callback("Active") >>
          /\ power = (IF out.rpc = "resolved" THEN out.arg ELSE hist.prevPower)
  /\ out.step = "playReturn" => hist.callbacks = << Callback("ActiveIdentifier") >>
  /\ (out.step = "select" /\ hist.callbacks # <<>>) => activeIdentifier = out.arg

\* C13 witness: the setPlayContent of a selectIdentifier was rejected and the
\* callback of the request is called, once, while a setPower is pending
C13_Witness ==
  /\ out.step = "playReturn" /\ out.rpc = "rejected"
  /\ hist.callbacks = << Callback("ActiveIdentifier") >>
  /\ hist.prevPending = <<1, 1>>
  /\ Pending = <<1, 0>>

\* the steps in which a timer of the controller runs its callback
TimerSteps == {"poll", "initialTimer", "interval"}

\* no timer of the controller is pending
NoTimers == pollTimers = 0 /\ ~timeoutPending /\ ~intervalPending

\* C14: the shutdown handler leaves no timer pending: not the poll timeout, not
\* the 2 s timeout, not the 6 h interval. Once it has run while no RPC was in
\* flight, no timer is ever pending again and no timer issues an RPC. A
\* shutdown that follows such a shutdown, or follows a shutdown at once,
\* changes no field, timer or call of the controller
C14_ShutdownCancels ==
  /\ [](out.step = "shutdown" => NoTimers)
  /\ [](hist.quiet => (NoTimers /\ out.step \notin TimerSteps))
  /\ [][(out'.step = "shutdown" /\ (hist.quiet \/ out.step = "shutdown"))
          => UNCHANGED controllerVars]_vars

\* C14 witness: shutdown ran while the poll timer was pending and no RPC was in
\* flight, time has passed the 2 s timeout, and shutdown has run a second time
C14_Witness ==
  /\ hist.quiet
  /\ hist.prevShutdown
  /\ out.step = "shutdown"
  /\ now >= StartMs + InitialDelayMs
  /\ NoRpcInFlight

\* the favourites the lines of the file give, line by line, in the file's order
ValidEntries ==
  IF file.state # "present" THEN <<>>
  ELSE LET lines == SplitLines(file.raw)
       IN SelectSeq([i \in DOMAIN lines |-> ParseLine(lines[i])],
                    LAMBDA e : e # NoEntry)

\* a decimal number without leading zeros
IsNormalized(number) == AllDigits(number) /\ (Len(number) = 1 \/ number[1] # "0")

\* C15 (as claimed): the list loadFavourites returns is never longer than max,
\* whatever max is; it holds the first favourites the valid lines give, in the
\* file's order, whatever malformed lines stand between them; each number is
\* all digits without leading zeros; a file that cannot be read gives the empty
\* list
C15_LoadedList ==
  launch.ran =>
    /\ Len(launch.favourites) <= MaxOf(config)
    /\ Len(launch.favourites) = Min({MaxOf(config), Len(ValidEntries)})
    /\ launch.favourites = SubSeq(ValidEntries, 1, Len(launch.favourites))
    /\ \A i \in DOMAIN launch.favourites :
         launch.favourites[i].name # <<>> /\ IsNormalized(launch.favourites[i].number)
    /\ file.state # "present" => launch.favourites = <<>>

\* the leading digits of the trimmed title
LeadingDigits(title) == SubSeq(Trim(title), 1, DigitRun(Trim(title), 1))

\* the character after them is none, or none of a word
EndsAtBoundary(title) ==
  LET t == Trim(title)
      k == DigitRun(t, 1)
  IN k = Len(t) \/ ~IsWordChar(t[k + 1])

\* the channel number of an entry by the precedence of the claim, where
\* titleTier tells whether the leading digits of the title count
NumberByPrecedence(item, titleTier(_)) ==
  IF AllDigits(item.dispNum) THEN Normalize(item.dispNum)
  ELSE IF titleTier(item.title) THEN Normalize(LeadingDigits(item.title))
  ELSE IF UriMatch(item.uri) # <<>> THEN Normalize(UriMatch(item.uri))
  ELSE <<>>

\* the map is the one the entries of the list give under that precedence:
\* entries without uri or number are dropped, a later entry replaces an
\* earlier one of the same number
MapByPrecedence(map, list, titleTier(_)) ==
  LET number(i) == NumberByPrecedence(list[i], titleTier)
      stored == {i \in DOMAIN list : list[i].uri # <<>> /\ number(i) # <<>>}
  IN /\ DOMAIN map = {number(i) : i \in stored}
     /\ \A i \in stored :
          (\A j \in stored : j > i => number(j) # number(i)) => map[number(i)] = list[i].uri
     /\ \A key \in DOMAIN map : IsNormalized(key)

\* the last step built the map from a response with entries
MapBuilt == out.step = "listReturn" /\ out.rpc = "resolved"

\* C16 (as claimed): the map built from a response follows the precedence
\* display number, leading 1 to 4 digits of the title, digits after dispNum= /
\* channel= / ch= in the uri
C16_Derivation ==
  MapBuilt =>
    MapByPrecedence(channelUriByNumber, hist.list,
                    LAMBDA title : DigitRun(Trim(title), 1) \in 1..4)

\* C16 (amended): the same, where the leading 1 to 4 digits of the title count
\* only if the title ends after them or goes on with a character that is no
\* letter, digit or underscore
C16_DerivationAtBoundary ==
  MapBuilt =>
    MapByPrecedence(channelUriByNumber, hist.list,
                    LAMBDA title : DigitRun(Trim(title), 1) \in 1..4 /\ EndsAtBoundary(title))

\* C16 witness: an entry with display number 12 and title 99 Other Channel is
\* stored under 12, and nothing under 99
C16_Witness ==
  /\ MapBuilt
  /\ \E i \in DOMAIN hist.list :
       /\ hist.list[i].dispNum = << "1", "2" >>
       /\ hist.list[i].title = << "9", "9", " ", "O", "t", "h", "e", "r", " ", "C", "h", "a", "n", "n", "e", "l" >>
       /\ << "1", "2" >> \in DOMAIN channelUriByNumber
       /\ channelUriByNumber[<< "1", "2" >>] = hist.list[i].uri
  /\ << "9", "9" >> \notin DOMAIN channelUriByNumber

\* a getContentList was issued less than 60 s before the last step's attempt
InsideWindow == IssuedBefore # None /\ now - IssuedBefore < ThrottleMs

\* an on-demand refresh issues its getContentList no sooner than 60 s after the
\* one before
OnDemandLimited ==
  (out.step = "select" /\ out.refresh = "issued" /\ hist.prevListIssuedAt # None)
     => now - hist.prevListIssuedAt >= ThrottleMs

\* C17 (as claimed): every firing of the 6 h timer issues a getContentList,
\* however recent the last on-demand refresh; on-demand refreshes are limited
\* to one in 60 s
C17_PeriodicUnconditional ==
  /\ out.step = "interval"
       => (out.refresh = "issued" /\ Count(out.events, "rpc", "getContentList") = 1)
  /\ OnDemandLimited

\* C17 (amended): the 6 h timer calls the same refreshChannelMap: its firing
\* issues one getContentList unless a getContentList was issued less than 60 s
\* before, on demand or not, and then it issues none; on-demand refreshes are
\* limited to one in 60 s
C17_PeriodicThrottled ==
  /\ out.step = "interval"
       => /\ out.refresh = (IF InsideWindow THEN "noop" ELSE "issued")
          /\ Count(out.events, "rpc", "getContentList") = (IF InsideWindow THEN 0 ELSE 1)
  /\ OnDemandLimited

\* C17 witness: the 6 h timer fires less than 60 s after a selectIdentifier
\* issued a getContentList, and issues none
C17_Witness ==
  /\ out.step = "interval"
  /\ out.refresh = "noop"
  /\ now = StartMs + IntervalMs
  /\ hist.lastListIssuedAt = now - StepMs

\* the input sources among the services
InputSources(services) == {s \in services : s.type = "InputSource"}

\* the favourites loaded whose number is in 1..999
Tunable ==
  {i \in DOMAIN launch.favourites :
     /\ NumVal(launch.favourites[i].number) >= 1
     /\ NumVal(launch.favourites[i].number) <= MaxIdentifier}

\* C18: after buildServices the table has exactly the favourites whose number
\* is in 1..999, each under the identifier that is its number, and the
\* accessory has exactly one InputSource service for each identifier of the
\* table and none else, also when a number comes twice under two names and
\* whatever services the accessory had before; the controller's table is that
\* of its build
C18_TableAndInputs ==
  \A b \in Builds :
     /\ DOMAIN b.table = {NumVal(launch.favourites[i].number) : i \in Tunable}
     /\ \A i \in Tunable :
          b.table[NumVal(launch.favourites[i].number)] = launch.favourites[i].number
     /\ \A identifier \in DOMAIN b.table :
          Cardinality({s \in InputSources(b.services) : s.identifier = identifier}) = 1
     /\ \A s \in InputSources(b.services) : s.identifier \in DOMAIN b.table
     /\ b = launch.builds[Len(launch.builds)]
          => (identifierToChannel = b.table /\ directory[b.uuid].services = b.services)

\* C18 witness: the file gives the number 7 twice, under two names, and the
\* cached accessory had an input for 12: one entry, one input, for 7
C18_Witness ==
  /\ launch.ran
  /\ Len(launch.favourites) = 2
  /\ launch.favourites[1].number = launch.favourites[2].number
  /\ launch.favourites[1].name # launch.favourites[2].name
  /\ DOMAIN identifierToChannel = {7}
  /\ \E b \in Builds :
       /\ b.cached
       /\ \E s \in InputSources(b.before.services) : s.identifier = 12
       /\ Cardinality(InputSources(b.services)) = 1

\* C19 (as claimed): a poll whose getPowerStatus was issued before a setPower
\* succeeded, and whose response is handled after it, leaves this.power at
\* the value that setPower set and notifies nothing
C19_NoStaleOverwrite ==
  (out.step = "pollReturn" /\ hist.staleFor # "none")
     => (power = (hist.staleFor = "on") /\ out.events = <<>>)

\* C20 (as claimed): of two getContentList calls in flight together the later
\* issued decides the map: the response of a call issued before the call the
\* map was built from never replaces the map
C20_LaterRequestWins ==
  out.step = "listReturn" => ~hist.staleReplaced

====
